---- MODULE Spec2Model ----
(***************************************************************************)
(* Model of the FPL MCP server: src/tools/fpl_tools.py (gateway, catalog,  *)
(* enrichment, analytics) and the endpoints of src/main.py that call it.   *)
(*                                                                         *)
(* The specifications share the variables:                                 *)
(*   Spec        the two lru_cache memoizations, filled at the module      *)
(*               import and by concurrent worker threads;                  *)
(*   SpecGateway every gateway function against every upstream answer;     *)
(*   SpecRank    get_top_players on bounded catalogs;                      *)
(*   SpecValue   top_value_picks on bounded catalogs;                      *)
(*   SpecFdr     get_fdr on bounded team strengths and fixture lists;      *)
(*   SpecEnrich  the enrichment joins on records with dangling ids;        *)
(*   SpecCohort  the league / cohort loops, one upstream fetch per step.   *)
(***************************************************************************)
EXTENDS Integers, Sequences, FiniteSets, TLC

VARIABLES
    proc,      \* the process: "importing", "import_fetch", "serving", "crashed"
    cache,     \* lru_cache storage of get_bootstrap_data / get_fixtures: <<>> or <<payload>>
    pc,        \* per worker thread: "idle", "fetching", "done"
    op,        \* per worker thread: the gateway function being called
    resp,      \* per worker thread: the upstream response of this call (kind, body)
    outcome,   \* per worker thread: what the call gave its caller (exc, value)
    attempts,  \* per worker thread: upstream requests issued by this call
    catalog,   \* the bootstrap snapshot in use: elements, teams, element_types
    fixtures,  \* the fixture list in use
    call,      \* the function applied to the catalog, with its arguments
    ret,       \* what that function returned or raised (exc, value)
    frame,     \* the running cohort / league operation: stage, ids, loop index, tallies
    league     \* upstream: the manager ids of the league standings, in rank order

gwvars == <<proc, cache, pc, op, resp, outcome, attempts>>

fnvars == <<catalog, fixtures, call, ret, frame, league>>

vars == <<proc, cache, pc, op, resp, outcome, attempts,
          catalog, fixtures, call, ret, frame, league>>

-----------------------------------------------------------------------------
(* Bounds *)

\* number of distinct well-formed payloads the upstream may serve over time
MaxVersion == 2
\* number of threadpool workers that run the synchronous endpoints
NumWorkers == 2

Workers == 1..NumWorkers
Versions == 1..MaxVersion

-----------------------------------------------------------------------------
(* Upstream gateway: requests.get(url).json()                              *)

\* A JSON document that is not the resource, e.g. {"detail": "Not found."}
ErrBody == 0
NoValue == -1

MemoOps == {"get_bootstrap_data", "get_fixtures"}

FreshOps == {"get_manager_info", "get_manager_history", "get_manager_picks",
             "get_manager_transfers", "get_live_scores",
             "get_top_manager_ids", "get_recent_form"}

GatewayOps == MemoOps \cup FreshOps

\* What the upstream can answer to one HTTP GET.
Responses ==
    [kind : {"ok"}, body : Versions]
    \cup [kind : {"network_error", "non2xx_json", "non2xx_text", "malformed_json"},
          body : {ErrBody}]

NoResp == [kind |-> "none", body |-> NoValue]
NoOutcome == [exc |-> "none", value |-> NoValue]

\* requests.get(url).json(): no raise_for_status(), so a non-2xx answer whose
\* body is JSON is decoded and returned like any other.
GetJson(r) ==
    CASE r.kind = "network_error" -> [exc |-> "ConnectionError", value |-> NoValue]
      [] r.kind \in {"non2xx_text", "malformed_json"} ->
             [exc |-> "JSONDecodeError", value |-> NoValue]
      [] OTHER -> [exc |-> "", value |-> r.body]

\* get_top_manager_ids and get_recent_form index the decoded document
\* (res["standings"]["results"], [...]["history"]) before returning.
Subscript(o) ==
    IF o.exc = "" /\ o.value = ErrBody
    THEN [exc |-> "KeyError", value |-> NoValue]
    ELSE o

FetchOutcome(f, r) ==
    IF f \in {"get_top_manager_ids", "get_recent_form"}
    THEN Subscript(GetJson(r))
    ELSE GetJson(r)

\* functools.lru_cache after the wrapped call returned: the result is stored
\* unless the key was added while the call ran.
LruStoreOverwrite(c, key, value) == [c EXCEPT ![key] = <<value>>]

LruStore(c, key, value) ==
    IF c[key] = <<>> THEN [c EXCEPT ![key] = <<value>>] ELSE c

-----------------------------------------------------------------------------
(* Spec: module import, then worker threads calling the gateway            *)

Init ==
    /\ proc = "importing"
    /\ cache = [f \in MemoOps |-> <<>>]
    /\ pc = [t \in Workers |-> "idle"]
    /\ op = [t \in Workers |-> "none"]
    /\ resp = [t \in Workers |-> NoResp]
    /\ outcome = [t \in Workers |-> NoOutcome]
    /\ attempts = [t \in Workers |-> 0]
    /\ catalog = [elements |-> <<>>, teams |-> <<>>, element_types |-> <<>>]
    /\ fixtures = <<>>
    /\ call = [fn |-> "none"]
    /\ ret = NoOutcome
    /\ frame = [stage |-> "idle"]
    /\ league = <<>>

\* Line 44-47: building _player_map_inv calls get_bootstrap_data() while the
\* module is imported; the cache is empty, so the request is issued.
ImportModule ==
    /\ proc = "importing"
    /\ proc' = "import_fetch"
    /\ UNCHANGED <<cache, pc, op, resp, outcome, attempts, fnvars>>

\* The import-time call returns: an exception, or a document without
\* "elements", ends the import and the process never serves.
ImportReturn ==
    /\ proc = "import_fetch"
    /\ \E r \in Responses :
         LET o == GetJson(r) IN
         IF o.exc # ""
         THEN /\ proc' = "crashed"
              /\ cache' = cache
         ELSE /\ cache' = LruStore(cache, "get_bootstrap_data", o.value)
              /\ proc' = IF o.value = ErrBody THEN "crashed" ELSE "serving"
    /\ UNCHANGED <<pc, op, resp, outcome, attempts, fnvars>>

\* A worker enters a gateway function of Fs. A memoized one looks its cache up:
\* a hit returns the stored object, a miss issues the request.
Call(t, Fs) ==
    /\ proc = "serving"
    /\ pc[t] = "idle"
    /\ \E f \in Fs :
         /\ op' = [op EXCEPT ![t] = f]
         /\ resp' = [resp EXCEPT ![t] = NoResp]
         /\ IF f \in MemoOps /\ cache[f] # <<>>
            THEN /\ pc' = [pc EXCEPT ![t] = "done"]
                 /\ outcome' = [outcome EXCEPT ![t] = [exc |-> "", value |-> cache[f][1]]]
                 /\ attempts' = [attempts EXCEPT ![t] = 0]
            ELSE /\ pc' = [pc EXCEPT ![t] = "fetching"]
                 /\ outcome' = [outcome EXCEPT ![t] = NoOutcome]
                 /\ attempts' = [attempts EXCEPT ![t] = 1]
    /\ UNCHANGED <<proc, cache, fnvars>>

\* The upstream answers; the function returns or raises. There is no retry.
FetchReturn(t) ==
    /\ pc[t] = "fetching"
    /\ \E r \in Responses :
         LET o == FetchOutcome(op[t], r) IN
         /\ resp' = [resp EXCEPT ![t] = r]
         /\ outcome' = [outcome EXCEPT ![t] = o]
         /\ cache' = IF op[t] \in MemoOps /\ o.exc = ""
                     THEN LruStore(cache, op[t], o.value)
                     ELSE cache
    /\ pc' = [pc EXCEPT ![t] = "done"]
    /\ UNCHANGED <<proc, op, attempts, fnvars>>

\* The endpoint answers its client; the worker takes the next request.
Finish(t) ==
    /\ pc[t] = "done"
    /\ pc' = [pc EXCEPT ![t] = "idle"]
    /\ op' = [op EXCEPT ![t] = "none"]
    /\ resp' = [resp EXCEPT ![t] = NoResp]
    /\ outcome' = [outcome EXCEPT ![t] = NoOutcome]
    /\ attempts' = [attempts EXCEPT ![t] = 0]
    /\ UNCHANGED <<proc, cache, fnvars>>

\* Spec: the callers of the two memoized functions, on every worker.
Next ==
    \/ ImportModule
    \/ ImportReturn
    \/ \E t \in Workers : Call(t, MemoOps)
    \/ \E t \in Workers : FetchReturn(t)
    \/ \E t \in Workers : Finish(t)

Spec == Init /\ [][Next]_vars

\* SpecGateway: every gateway function, memoized or not.
NextGateway ==
    \/ ImportModule
    \/ ImportReturn
    \/ \E t \in Workers : Call(t, GatewayOps)
    \/ \E t \in Workers : FetchReturn(t)
    \/ \E t \in Workers : Finish(t)

SpecGateway == Init /\ [][NextGateway]_vars

-----------------------------------------------------------------------------
(* Claims about the gateway and its memoization                            *)

Fetching(f) == {t \in Workers : pc[t] = "fetching" /\ op[t] = f}

Returned(f) == {t \in Workers : pc[t] = "done" /\ op[t] = f /\ outcome[t].exc = ""}

FailureKinds == {"network_error", "non2xx_json", "non2xx_text", "malformed_json"}

\* C1: for each memoized resource, concurrent first accesses issue at most one
\* upstream fetch and every request that obtains a snapshot obtains the same
\* one. Stated as the claim; the code does not satisfy it.
C1_SingleSharedSnapshot ==
    \A f \in MemoOps :
        /\ Cardinality(Fetching(f)) <= 1
        /\ \A t1, t2 \in Returned(f) : outcome[t1].value = outcome[t2].value

\* C2: each cache is written at most once: once a value is stored it never
\* changes, and every call entered afterwards returns that stored value
\* without issuing an upstream request.
C2_WrittenOnce ==
    [][\A f \in MemoOps :
         cache[f] # <<>> =>
           /\ cache'[f] = cache[f]
           /\ \A t \in Workers :
                (pc[t] = "idle" /\ pc'[t] # "idle" /\ op'[t] = f) =>
                   /\ pc'[t] = "done"
                   /\ outcome'[t] = [exc |-> "", value |-> cache[f][1]]
                   /\ attempts'[t] = 0]_vars

\* C2 witness: the fixture cache holds the first stored value, one request was
\* served from it without a fetch, and a racing request that had fetched a
\* different snapshot did not replace it.
C2_Witness ==
    \E t1, t2 \in Workers :
        /\ cache["get_fixtures"] # <<>>
        /\ pc[t1] = "done" /\ op[t1] = "get_fixtures" /\ attempts[t1] = 0
        /\ outcome[t1].value = cache["get_fixtures"][1]
        /\ pc[t2] = "done" /\ op[t2] = "get_fixtures" /\ attempts[t2] = 1
        /\ outcome[t2].exc = ""
        /\ outcome[t2].value # cache["get_fixtures"][1]

\* C5: when the upstream answers a gateway call with a network error, a non-2xx
\* response or malformed JSON, the call ends in an error after exactly one
\* attempt, and no failed response is stored as a cached snapshot. Stated as
\* the claim; the code does not satisfy it.
C5_FailureSurfaces ==
    proc = "serving" =>
        /\ \A t \in Workers :
             (pc[t] = "done" /\ resp[t].kind \in FailureKinds) =>
                 /\ outcome[t].exc # ""
                 /\ attempts[t] = 1
        /\ \A f \in MemoOps : cache[f] # <<ErrBody>>

-----------------------------------------------------------------------------
(* Python built-ins used by the catalog functions                          *)

\* Python's None where a record field holds it
PyNone == "<None>"

Ok(v) == [exc |-> "", value |-> v]
Raise(e) == [exc |-> e, value |-> <<>>]

Reverse(s) == [i \in 1..Len(s) |-> s[Len(s) + 1 - i]]

\* s[:k], for k of either sign
SliceTo(s, k) ==
    LET n == Len(s)
        e == IF k >= 0
             THEN (IF k < n THEN k ELSE n)
             ELSE (IF n + k > 0 THEN n + k ELSE 0)
    IN  SubSeq(s, 1, e)

\* [x for x in s if Test(x)]
RECURSIVE SelectIdx(_, _)
SelectIdx(s, keep) ==
    IF s = <<>> THEN <<>>
    ELSE LET front == SelectIdx(SubSeq(s, 1, Len(s) - 1), keep)
         IN  IF Len(s) \in keep THEN Append(front, s[Len(s)]) ELSE front

\* Sort keys are quotients num/den with den > 0 (den = 1 for an integer key).
KeyLE(a, b) == a.num * b.den <= b.num * a.den

\* list.sort is stable: x goes after every element whose key is <= its own.
InsertAsc(s, x) ==
    LET pos == Cardinality({i \in 1..Len(s) : KeyLE(s[i].k, x.k)})
    IN  SubSeq(s, 1, pos) \o <<x>> \o SubSeq(s, pos + 1, Len(s))

RECURSIVE SortAsc(_)
SortAsc(s) ==
    IF s = <<>> THEN <<>>
    ELSE InsertAsc(SortAsc(SubSeq(s, 1, Len(s) - 1)), s[Len(s)])

\* sorted(s, key=..., reverse=True) on entries [k, v]: CPython reverses the
\* list, sorts it ascending and reverses the result, which keeps entries of
\* equal key in their original order.
SortedReverse(s) == Reverse(SortAsc(Reverse(s)))

Values(s) == [i \in 1..Len(s) |-> s[i].v]

\* round(num / den, digits) as an integer count of 1/scale, den > 0:
\* round-half-even. With scale 100 a quotient falls on a half only when 8
\* divides den, with scale 10 only when 4 divides den.
RoundScaled(num, den, scale) ==
    LET n == scale * num
        q == n \div den
        r == n % den
    IN  IF 2 * r < den THEN q
        ELSE IF 2 * r > den THEN q + 1
        ELSE IF q % 2 = 0 THEN q ELSE q + 1

\* round(x, 2) in hundredths, round(x, 1) in tenths
Round2(num, den) == RoundScaled(num, den, 100)
Round1(num, den) == RoundScaled(num, den, 10)

-----------------------------------------------------------------------------
(* Reference catalog: get_bootstrap_data()["elements"|"teams"|"element_types"] *)

\* dict comprehension {x["id"]: ... for x in xs}: the last entry of an id wins
LastWith(xs, id) ==
    LET at == {i \in 1..Len(xs) : xs[i].id = id}
    IN  xs[CHOOSE i \in at : \A j \in at : j <= i]

HasId(xs, id) == \E i \in 1..Len(xs) : xs[i].id = id

\* _player_map(), _team_map(), _pos_map(): membership and lookup
HasPlayer(c, pid) == HasId(c.elements, pid)
PlayerOf(c, pid) == LastWith(c.elements, pid)
HasTeam(c, tid) == HasId(c.teams, tid)
TeamName(c, tid) == LastWith(c.teams, tid).name
HasPos(c, eid) == HasId(c.element_types, eid)
PosCode(c, eid) == LastWith(c.element_types, eid).singular_name_short

\* get_top_players with sorted(...)[::-1] in place of reverse=True
GetTopPlayersReversedAfter(c, limit) ==
    LET dec == [i \in 1..Len(c.elements) |->
                  [k |-> [num |-> c.elements[i].total_points, den |-> 1],
                   v |-> c.elements[i]]]
    IN  Ok(SliceTo(Values(Reverse(SortAsc(dec))), limit))

\* get_top_players(limit)
GetTopPlayers(c, limit) ==
    LET dec == [i \in 1..Len(c.elements) |->
                  [k |-> [num |-> c.elements[i].total_points, den |-> 1],
                   v |-> c.elements[i]]]
    IN  Ok(SliceTo(Values(SortedReverse(dec)), limit))

\* _enrich_player(pid): every lookup is a subscript, so a missing player,
\* team or position raises KeyError. price is now_cost / 10, kept in tenths.
EnrichPlayer(c, pid) ==
    IF ~HasPlayer(c, pid) THEN Raise("KeyError")
    ELSE LET p == PlayerOf(c, pid) IN
         IF ~HasTeam(c, p.team) THEN Raise("KeyError")
         ELSE IF ~HasPos(c, p.element_type) THEN Raise("KeyError")
         ELSE Ok([id |-> pid,
                  name |-> p.name,
                  team |-> TeamName(c, p.team),
                  position |-> PosCode(c, p.element_type),
                  price |-> p.now_cost])

\* A list comprehension over results that may raise: the first exception
\* ends it, otherwise the values in order.
Collect(rs) ==
    IF \E i \in 1..Len(rs) : rs[i].exc # ""
    THEN Raise(rs[CHOOSE i \in 1..Len(rs) :
                    rs[i].exc # "" /\ \A j \in 1..(i - 1) : rs[j].exc = ""].exc)
    ELSE Ok([i \in 1..Len(rs) |-> rs[i].value])

\* enrich_players(players): _enrich_player(p["id"]) plus the points
EnrichPlayers(c, players) ==
    Collect([i \in 1..Len(players) |->
        LET e == EnrichPlayer(c, players[i].id) IN
        IF e.exc # "" THEN e
        ELSE Ok([id |-> e.value.id, name |-> e.value.name, team |-> e.value.team,
                 position |-> e.value.position, price |-> e.value.price,
                 points |-> players[i].total_points])])

\* top_players endpoint: enrich_players(get_top_players(limit))
TopPlayersEndpoint(c, limit) == EnrichPlayers(c, GetTopPlayers(c, limit).value)

-----------------------------------------------------------------------------
(* SpecRank: get_top_players applied to bounded catalogs                   *)

\* players in a catalog
MaxPlayers == 3
\* largest total_points of a player
MaxPoints == 2
\* largest limit asked for
MaxLimit == 4

PlayerNames == <<"Alice Smith", "Bob Jones", "Carol White", "Dan Brown",
                 "Eve Black", "Finn Gray">>

\* ids are unique in a snapshot; they fall along the catalog order
PlayerId(i) == 100 - i

BaseTeams == <<[id |-> 1, name |-> "Reds", strength |-> 3],
               [id |-> 2, name |-> "Blues", strength |-> 4]>>

BaseTypes == <<[id |-> 1, singular_name_short |-> "GK"],
               [id |-> 2, singular_name_short |-> "DEF"],
               [id |-> 3, singular_name_short |-> "MID"],
               [id |-> 4, singular_name_short |-> "FWD"]>>

Player(i, tm, et, pts, cost, mins) ==
    [id |-> PlayerId(i), name |-> PlayerNames[i], team |-> tm, element_type |-> et,
     total_points |-> pts, now_cost |-> cost, minutes |-> mins]

RankCatalogs(maxn) ==
    UNION {
      { [elements |-> [i \in 1..n |-> Player(i, 1, 1 + (i % 4), pts[i], 50, 900)],
         teams |-> BaseTeams,
         element_types |-> BaseTypes] : pts \in [1..n -> 0..MaxPoints] }
      : n \in 0..maxn }

\* A behaviour of the function specifications applies one function to one
\* catalog: the functions keep no state between calls.
FnInitIn(cs, fs, ls) ==
    /\ proc = "serving"
    /\ cache = [f \in MemoOps |-> <<1>>]
    /\ pc = [t \in Workers |-> "idle"]
    /\ op = [t \in Workers |-> "none"]
    /\ resp = [t \in Workers |-> NoResp]
    /\ outcome = [t \in Workers |-> NoOutcome]
    /\ attempts = [t \in Workers |-> 0]
    /\ catalog \in cs
    /\ fixtures \in fs
    /\ call = [fn |-> "none"]
    /\ ret = NoOutcome
    /\ frame = [stage |-> "idle"]
    /\ league \in ls

FnInit(cs, fs) == FnInitIn(cs, fs, {<<>>})

InitRank == FnInit(RankCatalogs(MaxPlayers), {<<>>})

\* get_top_players(limit); the endpoint admits 1 <= limit <= 50
CallGetTopPlayers ==
    /\ call.fn = "none"
    /\ \E limit \in 1..MaxLimit :
         /\ call' = [fn |-> "get_top_players", limit |-> limit]
         /\ ret' = GetTopPlayers(catalog, limit)
    /\ UNCHANGED <<gwvars, catalog, fixtures, frame, league>>

\* GET /tools/get_top_players
CallTopPlayersEndpoint ==
    /\ call.fn = "none"
    /\ \E limit \in 1..MaxLimit :
         /\ call' = [fn |-> "top_players", limit |-> limit]
         /\ ret' = TopPlayersEndpoint(catalog, limit)
    /\ UNCHANGED <<gwvars, catalog, fixtures, frame, league>>

NextRank ==
    \/ CallGetTopPlayers
    \/ CallTopPlayersEndpoint

SpecRank == InitRank /\ [][NextRank]_vars

\* position of a returned record in the catalog (ids are unique)
CatalogIndex(x) == CHOOSE i \in 1..Len(catalog.elements) : catalog.elements[i].id = x.id

Min(a, b) == IF a < b THEN a ELSE b

\* C9: for limit >= 1, get_top_players(limit) (and the endpoint over it)
\* returns min(limit, number of players) catalog players, non-increasing by
\* total_points, equal totals in catalog order, and no player left out ranks
\* before one that is returned.
C9_TopPlayersStableDescending ==
    call.fn \in {"get_top_players", "top_players"} =>
        LET r == ret.value
            pts(x) == IF call.fn = "top_players" THEN x.points ELSE x.total_points
            n == Len(catalog.elements)
            idx == {CatalogIndex(r[i]) : i \in 1..Len(r)}
        IN  /\ ret.exc = ""
            /\ Len(r) = Min(call.limit, n)
            /\ \A i \in 1..Len(r) :
                 /\ HasPlayer(catalog, r[i].id)
                 /\ pts(r[i]) = catalog.elements[CatalogIndex(r[i])].total_points
            /\ \A i \in 1..(Len(r) - 1) :
                 \/ pts(r[i]) > pts(r[i + 1])
                 \/ /\ pts(r[i]) = pts(r[i + 1])
                    /\ CatalogIndex(r[i]) < CatalogIndex(r[i + 1])
            /\ \A j \in (1..n) \ idx :
                 \A i \in 1..Len(r) :
                     \/ catalog.elements[j].total_points < pts(r[i])
                     \/ /\ catalog.elements[j].total_points = pts(r[i])
                        /\ CatalogIndex(r[i]) < j

\* C9 witness: a truncated ranking in which two players tie on total_points
\* and a third, left out, ties with the last one returned.
C9_Witness ==
    /\ call.fn = "get_top_players"
    /\ ret.exc = ""
    /\ Len(ret.value) = 2
    /\ Len(catalog.elements) = 3
    /\ call.limit = 2
    /\ ret.value[1].total_points = ret.value[2].total_points
    /\ \E j \in 1..3 : /\ catalog.elements[j].id \notin {ret.value[1].id, ret.value[2].id}
                       /\ catalog.elements[j].total_points = ret.value[2].total_points

-----------------------------------------------------------------------------
(* Enrichment and analytics over the catalog                               *)

\* resolve_player_picks(picks)
ResolvePlayerPicks(c, picks) ==
    Collect([i \in 1..Len(picks) |->
        LET e == EnrichPlayer(c, picks[i].element) IN
        IF e.exc # "" THEN e
        ELSE Ok([id |-> e.value.id, name |-> e.value.name, team |-> e.value.team,
                 position |-> e.value.position, price |-> e.value.price,
                 multiplier |-> picks[i].multiplier,
                 is_captain |-> picks[i].is_captain,
                 is_vice_captain |-> picks[i].is_vice_captain])])

\* enrich_live_scores(raw): subscript joins, then sorted by -points (stable)
EnrichLiveScores(c, raw) ==
    LET rows == Collect([i \in 1..Len(raw.elements) |->
                   LET e == raw.elements[i] IN
                   IF ~HasPlayer(c, e.id) THEN Raise("KeyError")
                   ELSE LET p == PlayerOf(c, e.id) IN
                        IF ~HasTeam(c, p.team) THEN Raise("KeyError")
                        ELSE IF ~HasPos(c, p.element_type) THEN Raise("KeyError")
                        ELSE Ok([name |-> p.name,
                                 team |-> TeamName(c, p.team),
                                 position |-> PosCode(c, p.element_type),
                                 points |-> e.stats.total_points,
                                 minutes |-> e.stats.minutes,
                                 goals |-> e.stats.goals_scored,
                                 assists |-> e.stats.assists])])
    IN  IF rows.exc # "" THEN rows
        ELSE Ok(Values(SortAsc([i \in 1..Len(rows.value) |->
                    [k |-> [num |-> 0 - rows.value[i].points, den |-> 1],
                     v |-> rows.value[i]]])))

\* live_data.get(element_id, {}).get("stats", {}).get("total_points", 0)
LivePoints(live, pid) ==
    IF HasId(live, pid) THEN LastWith(live, pid).stats.total_points ELSE 0

\* enrich_manager_picks(raw): get_live_scores(entry["event"]) is fetched first
\* and its exception propagates; every catalog lookup is a .get() with a
\* default, so nothing raises for an id the catalog does not hold.
EnrichManagerPicks(c, raw, liveScores) ==
    IF liveScores.exc # "" THEN Raise(liveScores.exc)
    ELSE
      Ok([gameweek |-> raw.entry_history.event,
          bank |-> raw.entry_history.bank,
          squad |-> [i \in 1..Len(raw.picks) |->
             LET pid == raw.picks[i].element
                 has == HasPlayer(c, pid)
             IN  [name |-> IF has THEN PlayerOf(c, pid).name ELSE "None None",
                  team |-> IF has /\ HasTeam(c, PlayerOf(c, pid).team)
                           THEN TeamName(c, PlayerOf(c, pid).team) ELSE PyNone,
                  position |-> IF has /\ HasPos(c, PlayerOf(c, pid).element_type)
                               THEN PosCode(c, PlayerOf(c, pid).element_type)
                               ELSE PyNone,
                  price |-> IF has THEN PlayerOf(c, pid).now_cost ELSE 0,
                  multiplier |-> raw.picks[i].multiplier,
                  is_captain |-> raw.picks[i].is_captain,
                  is_vice_captain |-> raw.picks[i].is_vice_captain,
                  points |-> LivePoints(liveScores.value, pid)]]])

\* get_team_fixtures(team_id)
GetTeamFixtures(fx, tid) ==
    SelectIdx(fx, {i \in 1..Len(fx) : fx[i].team_h = tid \/ fx[i].team_a = tid})

\* enrich_fixtures_for_team(team_id); kickoff_time[:16] keeps the minute part
EnrichFixturesForTeam(c, fx, tid) ==
    LET fs == GetTeamFixtures(fx, tid) IN
    Collect([i \in 1..Len(fs) |->
        IF ~HasTeam(c, fs[i].team_h) \/ ~HasTeam(c, fs[i].team_a)
        THEN Raise("KeyError")
        ELSE Ok([gw |-> fs[i].event,
                 home |-> TeamName(c, fs[i].team_h),
                 away |-> TeamName(c, fs[i].team_a),
                 ko |-> fs[i].kickoff_time.minute,
                 finished |-> fs[i].finished])])

\* fdr_map
FdrMap == [b \in 1..5 |-> IF b <= 2 THEN "EASY" ELSE IF b = 3 THEN "MED" ELSE "HARD"]

\* (strength // 100) or 1
FdrBucket(strength) ==
    IF strength \div 100 = 0 THEN 1 ELSE strength \div 100

\* get_fdr(team_id, next_n): get_team_summary(opp) is the first team of that
\* id or {}, whose ["strength"] raises; fdr_map[...] raises off its keys.
GetFdr(c, fx, tid, next_n) ==
    LET fs == SliceTo(GetTeamFixtures(fx, tid), next_n) IN
    Collect([i \in 1..Len(fs) |->
        LET opp == IF fs[i].team_h = tid THEN fs[i].team_a ELSE fs[i].team_h IN
        IF ~HasTeam(c, opp) THEN Raise("KeyError")
        ELSE LET first == CHOOSE k \in 1..Len(c.teams) :
                            /\ c.teams[k].id = opp
                            /\ \A j \in 1..(k - 1) : c.teams[j].id # opp
                 b == FdrBucket(c.teams[first].strength)
             IN  IF b \notin DOMAIN FdrMap THEN Raise("KeyError")
                 ELSE Ok([gw |-> fs[i].event,
                          opponent |-> TeamName(c, opp),
                          fdr |-> FdrMap[b]])])

\* top_value_picks(limit, min_mins): the only filter is on minutes; the sort
\* key total_points / now_cost is evaluated for every player kept.
TopValuePicks(c, limit, min_mins) ==
    LET els == SelectIdx(c.elements,
                   {i \in 1..Len(c.elements) : c.elements[i].minutes >= min_mins})
    IN  IF \E i \in 1..Len(els) : els[i].now_cost = 0
        THEN Raise("ZeroDivisionError")
        ELSE LET vals == SliceTo(Values(SortedReverse([i \in 1..Len(els) |->
                             [k |-> [num |-> els[i].total_points,
                                     den |-> els[i].now_cost],
                              v |-> els[i]]])), limit)
             IN  Collect([i \in 1..Len(vals) |->
                     LET e == EnrichPlayer(c, vals[i].id) IN
                     IF e.exc # "" THEN e
                     ELSE Ok([id |-> e.value.id, name |-> e.value.name,
                              team |-> e.value.team, position |-> e.value.position,
                              price |-> e.value.price,
                              ppm |-> Round2(vals[i].total_points, vals[i].now_cost),
                              points |-> vals[i].total_points])])

-----------------------------------------------------------------------------
(* SpecValue: top_value_picks applied to bounded catalogs                  *)

\* now_cost is a non-negative integer (tenths)
CostValues == {0, 40, 50}
MinuteValues == {450, 900}
MinMinsValues == {0, 900}

ValueCatalogs(maxn) ==
    UNION {
      { [elements |-> [i \in 1..n |->
                         Player(i, 1, 1 + (i % 4), pl[i][1], pl[i][2], pl[i][3])],
         teams |-> BaseTeams,
         element_types |-> BaseTypes]
        : pl \in [1..n -> (0..MaxPoints) \X CostValues \X MinuteValues] }
      : n \in 0..maxn }

InitValue == FnInit(ValueCatalogs(MaxPlayers), {<<>>})

\* top_value_picks(limit, min_mins), GET /tools/get_value_picks
CallTopValuePicks ==
    /\ call.fn = "none"
    /\ \E limit \in 1..MaxLimit, min_mins \in MinMinsValues :
         /\ call' = [fn |-> "top_value_picks", limit |-> limit, min_mins |-> min_mins]
         /\ ret' = TopValuePicks(catalog, limit, min_mins)
    /\ UNCHANGED <<gwvars, catalog, fixtures, frame, league>>

NextValue == CallTopValuePicks

SpecValue == InitValue /\ [][NextValue]_vars

\* C7: top_value_picks returns normally for every catalog; no returned player
\* has now_cost <= 0 or minutes < min_mins; ppm is total_points / now_cost
\* rounded to 2 decimals; entries are in non-increasing order of the ratio.
\* Stated as the claim; the code does not satisfy it.
C7_ValuePicksGuarded ==
    call.fn = "top_value_picks" =>
        /\ ret.exc = ""
        /\ \A i \in 1..Len(ret.value) :
             LET p == PlayerOf(catalog, ret.value[i].id) IN
             /\ p.now_cost > 0
             /\ p.minutes >= call.min_mins
             /\ ret.value[i].ppm = Round2(p.total_points, p.now_cost)
        /\ \A i \in 1..(Len(ret.value) - 1) :
             LET p == PlayerOf(catalog, ret.value[i].id)
                 q == PlayerOf(catalog, ret.value[i + 1].id)
             IN  p.total_points * q.now_cost >= q.total_points * p.now_cost

-----------------------------------------------------------------------------
(* SpecFdr: get_fdr applied to bounded team strengths and fixture lists    *)

\* fixtures in the list
MaxFixtures == 2

StrengthValues == {3, 99, 100, 250, 300, 450, 599, 600}

Fixture(gw, h, a) ==
    [event |-> gw, team_h |-> h, team_a |-> a,
     kickoff_time |-> [minute |-> "2024-08-16T19:00", rest |-> ":00Z"],
     finished |-> FALSE]

FixtureLists(teamIds) ==
    UNION {
      { [i \in 1..n |-> Fixture(i, ha[i][1], ha[i][2])]
        : ha \in [1..n -> {x \in teamIds \X teamIds : x[1] # x[2]}] }
      : n \in 0..MaxFixtures }

FdrCatalogs ==
    { [elements |-> <<>>,
       teams |-> [i \in 1..2 |-> [id |-> i, name |-> BaseTeams[i].name,
                                  strength |-> st[i]]],
       element_types |-> BaseTypes] : st \in [1..2 -> StrengthValues] }

InitFdr == FnInit(FdrCatalogs, FixtureLists({1, 2}))

\* get_fdr(team_id, next_n), GET /tools/get_fdr
CallGetFdr ==
    /\ call.fn = "none"
    /\ \E tid \in {1, 2}, next_n \in 1..MaxFixtures :
         /\ call' = [fn |-> "get_fdr", team_id |-> tid, next_n |-> next_n]
         /\ ret' = GetFdr(catalog, fixtures, tid, next_n)
    /\ UNCHANGED <<gwvars, catalog, fixtures, frame, league>>

NextFdr == CallGetFdr

SpecFdr == InitFdr /\ [][NextFdr]_vars

\* the opponents get_fdr rates in this call, in order
RatedOpponents ==
    LET fs == SliceTo(GetTeamFixtures(fixtures, call.team_id), call.next_n)
    IN  [i \in 1..Len(fs) |->
            IF fs[i].team_h = call.team_id THEN fs[i].team_a ELSE fs[i].team_h]

StrengthOf(tid) == LastWith(catalog.teams, tid).strength

\* C8: for every opponent strength >= 1 the bucket (strength // 100, 0 taken
\* as 1) is mapped to EASY (1-2), MED (3) or HARD (4-5) and the lookup never
\* fails. Stated as the claim; the code does not satisfy it.
C8_FdrTotal ==
    (call.fn = "get_fdr" /\ \A i \in 1..Len(RatedOpponents) :
                               StrengthOf(RatedOpponents[i]) >= 1) =>
        /\ ret.exc = ""
        /\ Len(ret.value) = Len(RatedOpponents)
        /\ \A i \in 1..Len(ret.value) : ret.value[i].fdr \in {"EASY", "MED", "HARD"}

-----------------------------------------------------------------------------
(* SpecEnrich: the enrichment joins applied to records whose ids the       *)
(* catalog may or may not hold                                             *)

\* records in one input list (picks, players, live elements)
MaxPicks == 2

\* a player id, a team id and a position id that no catalog here holds
AbsentPlayer == PlayerId(0)
AbsentTeam == Len(BaseTeams) + 1
AbsentType == Len(BaseTypes) + 1

RefCatalogs(maxn) ==
    UNION {
      { [elements |-> [i \in 1..n |-> Player(i, ref[i][1], ref[i][2], i, 50, 900)],
         teams |-> BaseTeams,
         element_types |-> BaseTypes]
        : ref \in [1..n -> {1, AbsentTeam} \X {1, AbsentType}] }
      : n \in 1..maxn }

InitEnrich ==
    FnInit(RefCatalogs(MaxPlayers),
           {<<>>, <<Fixture(1, 1, 2)>>, <<Fixture(1, 1, AbsentTeam)>>,
            <<Fixture(1, AbsentTeam, 2), Fixture(2, 2, 1)>>})

InputIds == {catalog.elements[i].id : i \in 1..Len(catalog.elements)} \cup {AbsentPlayer}

SeqsUpTo(S, n) == UNION {[1..k -> S] : k \in 0..n}

\* raw picks of one manager: the first is the captain, the second the vice
PickLists ==
    { [i \in 1..Len(ids) |->
         [element |-> ids[i], multiplier |-> IF i = 1 THEN 2 ELSE 1,
          is_captain |-> (i = 1), is_vice_captain |-> (i = 2)]]
      : ids \in SeqsUpTo(InputIds, MaxPicks) }

\* elements of a live-scores document
LiveLists ==
    { [i \in 1..Len(ids) |->
         [id |-> ids[i],
          stats |-> [total_points |-> 2 * i, minutes |-> 90,
                     goals_scored |-> 0, assists |-> 0]]]
      : ids \in SeqsUpTo(InputIds, MaxPicks) }

\* what get_live_scores(gw) gives enrich_manager_picks: an exception, or the
\* "elements" of the decoded document ([] when it has none)
LiveOutcomes ==
    {Raise("ConnectionError"), Raise("JSONDecodeError"), Ok(<<>>)}
    \cup {Ok(<<[id |-> catalog.elements[1].id,
                stats |-> [total_points |-> 6, minutes |-> 90,
                           goals_scored |-> 1, assists |-> 0]]>>)}

CallEnrichPlayer ==
    /\ call.fn = "none"
    /\ \E pid \in InputIds :
         /\ call' = [fn |-> "_enrich_player", ids |-> <<pid>>]
         /\ ret' = LET e == EnrichPlayer(catalog, pid)
                   IN  IF e.exc # "" THEN e ELSE Ok(<<e.value>>)
    /\ UNCHANGED <<gwvars, catalog, fixtures, frame, league>>

CallResolvePlayerPicks ==
    /\ call.fn = "none"
    /\ \E picks \in PickLists :
         /\ call' = [fn |-> "resolve_player_picks",
                     ids |-> [i \in 1..Len(picks) |-> picks[i].element]]
         /\ ret' = ResolvePlayerPicks(catalog, picks)
    /\ UNCHANGED <<gwvars, catalog, fixtures, frame, league>>

CallEnrichPlayers ==
    /\ call.fn = "none"
    /\ \E ids \in SeqsUpTo(InputIds, MaxPicks) :
         /\ call' = [fn |-> "enrich_players", ids |-> ids]
         /\ ret' = EnrichPlayers(catalog,
                       [i \in 1..Len(ids) |-> [id |-> ids[i], total_points |-> i]])
    /\ UNCHANGED <<gwvars, catalog, fixtures, frame, league>>

CallEnrichLiveScores ==
    /\ call.fn = "none"
    /\ \E live \in LiveLists :
         /\ call' = [fn |-> "enrich_live_scores",
                     ids |-> [i \in 1..Len(live) |-> live[i].id]]
         /\ ret' = EnrichLiveScores(catalog, [elements |-> live])
    /\ UNCHANGED <<gwvars, catalog, fixtures, frame, league>>

CallEnrichManagerPicks ==
    /\ call.fn = "none"
    /\ \E picks \in PickLists, live \in LiveOutcomes :
         /\ call' = [fn |-> "enrich_manager_picks",
                     ids |-> [i \in 1..Len(picks) |-> picks[i].element]]
         /\ ret' = LET r == EnrichManagerPicks(catalog,
                                [entry_history |-> [event |-> 1, bank |-> 5],
                                 picks |-> picks], live)
                   IN  IF r.exc # "" THEN r ELSE Ok(r.value.squad)
    /\ UNCHANGED <<gwvars, catalog, fixtures, frame, league>>

CallEnrichFixturesForTeam ==
    /\ call.fn = "none"
    /\ \E tid \in {1, 2, AbsentTeam} :
         /\ call' = [fn |-> "enrich_fixtures_for_team", team_id |-> tid]
         /\ ret' = EnrichFixturesForTeam(catalog, fixtures, tid)
    /\ UNCHANGED <<gwvars, catalog, fixtures, frame, league>>

NextEnrich ==
    \/ CallEnrichPlayer
    \/ CallResolvePlayerPicks
    \/ CallEnrichPlayers
    \/ CallEnrichLiveScores
    \/ CallEnrichManagerPicks
    \/ CallEnrichFixturesForTeam

SpecEnrich == InitEnrich /\ [][NextEnrich]_vars

PlayerJoinFns == {"_enrich_player", "resolve_player_picks", "enrich_players",
                  "enrich_live_scores", "enrich_manager_picks"}

\* the player, or its team or position, is absent from the catalog
Dangling(pid) ==
    \/ ~HasPlayer(catalog, pid)
    \/ ~HasTeam(catalog, PlayerOf(catalog, pid).team)
    \/ ~HasPos(catalog, PlayerOf(catalog, pid).element_type)

\* the input of the call references an id the catalog does not hold
InputDangles ==
    IF call.fn \in PlayerJoinFns
    THEN \E i \in 1..Len(call.ids) : Dangling(call.ids[i])
    ELSE LET fs == GetTeamFixtures(fixtures, call.team_id)
         IN  \E i \in 1..Len(fs) :
                ~HasTeam(catalog, fs[i].team_h) \/ ~HasTeam(catalog, fs[i].team_a)

\* a returned record with a null or defaulted name, team, position or price
Hollow(rec) ==
    IF call.fn = "enrich_fixtures_for_team"
    THEN rec.home = PyNone \/ rec.away = PyNone
    ELSE \/ rec.name = "None None"
         \/ rec.team = PyNone
         \/ rec.position = PyNone
         \/ (call.fn # "enrich_live_scores" /\ rec.price = 0)

\* C4: every enrichment join fails when an input record references a player,
\* team or position id absent from the catalog, and none returns a record
\* with a null or defaulted name, team, position or price. Stated as the
\* claim; the code does not satisfy it.
C4_EnrichmentFailsLoudly ==
    call.fn \in PlayerJoinFns \cup {"enrich_fixtures_for_team"} =>
        /\ InputDangles => ret.exc # ""
        /\ ret.exc = "" => \A i \in 1..Len(ret.value) : ~Hollow(ret.value[i])

-----------------------------------------------------------------------------
(* SpecCohort: league standings and per-manager cohort loops               *)

\* managers in a cohort given as a list
MaxCohort == 2
\* entries in the league standings
MaxStandings == 3
\* entries the upstream serves per standings page
PageSize == 2
\* largest top_n asked for
MaxTopN == 3
\* characters of the team_ids query string
MaxChars == 3
\* get_template_team keeps the 15 most selected players
TemplateSize == 15

CohortCatalog ==
    [elements |-> [i \in 1..MaxPlayers |-> Player(i, 1, 1 + (i % 4), i, 50, 900)],
     teams |-> BaseTeams,
     element_types |-> BaseTypes]

\* A JSON error document, e.g. the body of a 404
ErrDoc == [detail |-> "Not found."]

DocResponses(docs) ==
    [kind : {"ok"}, body : docs]
    \cup [kind : {"network_error", "non2xx_text", "malformed_json"}, body : {<<>>}]
    \cup [kind : {"non2xx_json"}, body : {ErrDoc}]

Pick(pid) == [element |-> pid, multiplier |-> 1, is_captain |-> FALSE,
              is_vice_captain |-> FALSE]

\* entry/{id}/event/{gw}/picks/
PickDocs ==
    {[picks |-> <<Pick(PlayerId(1))>>, entry_history |-> [event |-> 1, bank |-> 5]],
     [picks |-> <<Pick(PlayerId(2)), Pick(PlayerId(1))>>,
      entry_history |-> [event |-> 1, bank |-> 0]]}

\* entry/{id}/history/: a chip entry as enrich_manager_history reads it
\* (name, event, time) and as chip_usage_summary reads it (chip, event)
HistoryDocs ==
    {[chips |-> <<>>],
     [chips |-> <<[chip |-> "wildcard", event |-> 1]>>],
     [chips |-> <<[name |-> "wildcard", event |-> 1, time |-> "2024-08-16T19:00:00Z"]>>]}

\* leagues-classic/{id}/standings/ without a page parameter: the first page
StandingsPage(page) ==
    SubSeq(league, (page - 1) * PageSize + 1, Min(page * PageSize, Len(league)))

StandingsDocs ==
    {[standings |-> [results |-> [i \in 1..Len(StandingsPage(1)) |->
                                     [entry |-> StandingsPage(1)[i]]]]]}

\* counter[key] = counter.get(key, 0) + 1 on a dict, which keeps insertion order
Tally(counter, key) ==
    IF \E i \in 1..Len(counter) : counter[i].key = key
    THEN [i \in 1..Len(counter) |->
            IF counter[i].key = key
            THEN [key |-> key, cnt |-> counter[i].cnt + 1] ELSE counter[i]]
    ELSE Append(counter, [key |-> key, cnt |-> 1])

RECURSIVE TallyAll(_, _)
TallyAll(counter, keys) ==
    IF keys = <<>> THEN counter
    ELSE TallyAll(Tally(counter, keys[1]), Tail(keys))

\* sorted(counter.items(), key=lambda x: -x[1])
ByCountDesc(counter) ==
    Values(SortAsc([i \in 1..Len(counter) |->
        [k |-> [num |-> 0 - counter[i].cnt, den |-> 1], v |-> counter[i]]]))

\* get_top_manager_ids(league_id, top_n): one request, no page parameter
GetTopManagerIds(r, top_n) ==
    LET o == GetJson(r) IN
    IF o.exc # "" THEN Raise(o.exc)
    ELSE IF "standings" \notin DOMAIN o.value THEN Raise("KeyError")
    ELSE LET res == SliceTo(o.value.standings.results, top_n)
         IN  Ok([i \in 1..Len(res) |-> res[i].entry])

\* one pass of "for tid in ids": the fetch and the tallying of its document
CohortStep(fn, counter, r) ==
    LET o == GetJson(r) IN
    IF o.exc # "" THEN Raise(o.exc)
    ELSE IF fn = "chip_usage_summary"
    THEN LET chips == IF "chips" \in DOMAIN o.value THEN o.value.chips ELSE <<>>
         IN  IF \E i \in 1..Len(chips) : "chip" \notin DOMAIN chips[i]
             THEN Raise("KeyError")
             ELSE Ok(TallyAll(counter, [i \in 1..Len(chips) |->
                                  [chip |-> chips[i].chip, event |-> chips[i].event]]))
    ELSE IF "picks" \notin DOMAIN o.value THEN Raise("KeyError")
    ELSE Ok(TallyAll(counter, [i \in 1..Len(o.value.picks) |->
                                  o.value.picks[i].element]))

\* ownership_trend with 100 / total hoisted out of the comprehension
OwnershipResultEagerDivision(c, counter, total) ==
    IF total = 0 THEN Raise("ZeroDivisionError")
    ELSE Collect([i \in 1..Len(counter) |->
            LET e == EnrichPlayer(c, ByCountDesc(counter)[i].key) IN
            IF e.exc # "" THEN e
            ELSE Ok([id |-> e.value.id, name |-> e.value.name, team |-> e.value.team,
                     position |-> e.value.position, price |-> e.value.price,
                     pct |-> Round1(ByCountDesc(counter)[i].cnt * 100, total)])])

\* ownership_trend after its loop: cnt * 100 / total is evaluated once per
\* counted player, so never when the counter is empty
OwnershipResult(c, counter, total) ==
    Collect([i \in 1..Len(counter) |->
        LET e == EnrichPlayer(c, ByCountDesc(counter)[i].key) IN
        IF e.exc # "" THEN e
        ELSE IF total = 0 THEN Raise("ZeroDivisionError")
        ELSE Ok([id |-> e.value.id, name |-> e.value.name, team |-> e.value.team,
                 position |-> e.value.position, price |-> e.value.price,
                 pct |-> Round1(ByCountDesc(counter)[i].cnt * 100, total)])])

\* get_template_team after its loop
TemplateResult(c, counter) ==
    LET common == SliceTo(ByCountDesc(counter), TemplateSize) IN
    Collect([i \in 1..Len(common) |->
        LET e == EnrichPlayer(c, common[i].key) IN
        IF e.exc # "" THEN e
        ELSE Ok([id |-> e.value.id, name |-> e.value.name, team |-> e.value.team,
                 position |-> e.value.position, price |-> e.value.price,
                 selected_by |-> common[i].cnt])])

\* team_ids.split(","), on the string as a sequence of characters
RECURSIVE Split(_)
Split(str) ==
    IF \A i \in 1..Len(str) : str[i] # ","
    THEN <<str>>
    ELSE LET k == CHOOSE i \in 1..Len(str) :
                    str[i] = "," /\ \A j \in 1..(i - 1) : str[j] # ","
         IN  <<SubSeq(str, 1, k - 1)>> \o Split(SubSeq(str, k + 1, Len(str)))

DigitValue == [ch \in {"1", "2"} |-> IF ch = "1" THEN 1 ELSE 2]

\* int(x) on a string of digits; int("") raises ValueError
RECURSIVE IntOf(_)
IntOf(tok) ==
    IF Len(tok) = 1 THEN DigitValue[tok[1]]
    ELSE 10 * IntOf(SubSeq(tok, 1, Len(tok) - 1)) + DigitValue[tok[Len(tok)]]

\* [int(x) for x in team_ids.split(",")]
ParseTeamIds(str) ==
    LET toks == Split(str) IN
    IF \E i \in 1..Len(toks) : toks[i] = <<>>
    THEN Raise("ValueError")
    ELSE Ok([i \in 1..Len(toks) |-> IntOf(toks[i])])

Frame(stage, ids) ==
    [stage |-> stage, ids |-> ids, i |-> 1, counter |-> <<>>,
     fetches |-> 0, failed |-> 0, seen |-> <<>>]

InitCohort ==
    FnInitIn({CohortCatalog}, {<<>>},
             {[k \in 1..n |-> 20 + k] : n \in 0..MaxStandings})

\* ownership_trend(team_ids, gw) / chip_usage_summary(team_ids) called with a list
CallCohortFunction ==
    /\ frame.stage = "idle"
    /\ \E fn \in {"ownership_trend", "chip_usage_summary"},
          ids \in SeqsUpTo({1, 11}, MaxCohort) :
         /\ call' = [fn |-> fn, team_ids |-> ids]
         /\ frame' = Frame("loop", ids)
    /\ UNCHANGED <<gwvars, catalog, fixtures, ret, league>>

\* GET /tools/ownership_trend?team_ids=...: the list is parsed first
CallOwnTrendEndpoint ==
    /\ frame.stage = "idle"
    /\ \E str \in SeqsUpTo({"1", ","}, MaxChars) :
         LET ids == ParseTeamIds(str) IN
         /\ call' = [fn |-> "own_trend", query |-> str, team_ids |-> ids.value]
         /\ IF ids.exc # ""
            THEN /\ ret' = Raise(ids.exc)
                 /\ frame' = Frame("done", <<>>)
            ELSE /\ ret' = ret
                 /\ frame' = Frame("loop", ids.value)
    /\ UNCHANGED <<gwvars, catalog, fixtures, league>>

\* get_top_manager_ids(league_id, top_n) / get_template_team(league_id, gw, top_n)
CallLeagueFunction ==
    /\ frame.stage = "idle"
    /\ \E fn \in {"get_top_manager_ids", "get_template_team"}, top_n \in 1..MaxTopN :
         /\ call' = [fn |-> fn, top_n |-> top_n]
         /\ frame' = Frame("standings", <<>>)
    /\ UNCHANGED <<gwvars, catalog, fixtures, ret, league>>

\* the standings request returns
StandingsReturn ==
    /\ frame.stage = "standings"
    /\ \E r \in DocResponses(StandingsDocs) :
         LET o == GetTopManagerIds(r, call.top_n)
             f == [frame EXCEPT !.fetches = @ + 1,
                                !.failed = IF r.kind = "ok" THEN @ ELSE @ + 1]
         IN  IF call.fn = "get_top_manager_ids" \/ o.exc # ""
             THEN /\ ret' = o
                  /\ frame' = [f EXCEPT !.stage = "done"]
             ELSE /\ ret' = ret
                  /\ frame' = [f EXCEPT !.stage = "loop", !.ids = o.value,
                                        !.fetches = 0]
    /\ UNCHANGED <<gwvars, catalog, fixtures, call, league>>

\* one manager of the cohort is fetched: an exception leaves the function
ManagerFetch ==
    /\ frame.stage = "loop"
    /\ frame.i <= Len(frame.ids)
    /\ \E r \in DocResponses(IF call.fn = "chip_usage_summary"
                             THEN HistoryDocs ELSE PickDocs) :
         LET o == CohortStep(call.fn, frame.counter, r)
             f == [frame EXCEPT !.fetches = @ + 1,
                                !.failed = IF r.kind = "ok" THEN @ ELSE @ + 1]
         IN  IF o.exc # ""
             THEN /\ ret' = o
                  /\ frame' = [f EXCEPT !.stage = "done"]
             ELSE /\ ret' = ret
                  /\ frame' = [f EXCEPT !.i = @ + 1, !.counter = o.value,
                                        !.seen = IF r.kind = "ok"
                                                 THEN Append(@, frame.ids[frame.i])
                                                 ELSE @]
    /\ UNCHANGED <<gwvars, catalog, fixtures, call, league>>

\* the loop is over: the result is built and returned
CohortReturn ==
    /\ frame.stage = "loop"
    /\ frame.i > Len(frame.ids)
    /\ ret' = CASE call.fn = "chip_usage_summary" -> Ok(ByCountDesc(frame.counter))
                [] call.fn = "get_template_team" -> TemplateResult(catalog, frame.counter)
                [] OTHER -> OwnershipResult(catalog, frame.counter, Len(frame.ids))
    /\ frame' = [frame EXCEPT !.stage = "done"]
    /\ UNCHANGED <<gwvars, catalog, fixtures, call, league>>

NextCohort ==
    \/ CallCohortFunction
    \/ CallOwnTrendEndpoint
    \/ CallLeagueFunction
    \/ StandingsReturn
    \/ ManagerFetch
    \/ CohortReturn

SpecCohort == InitCohort /\ [][NextCohort]_vars

-----------------------------------------------------------------------------
(* Claims about the league and cohort operations                           *)

CohortFns == {"ownership_trend", "own_trend", "chip_usage_summary", "get_template_team"}

\* C3: when the fetch of one manager of the cohort fails, ownership_trend,
\* chip_usage_summary and get_template_team do not abort: the manager is
\* skipped and the result aggregates the managers whose fetch succeeded.
\* Stated as the claim; the code does not satisfy it.
C3_CohortSkipsFailedManager ==
    (call.fn \in CohortFns /\ frame.stage = "done" /\ frame.failed > 0
       /\ Len(frame.ids) > 0) =>
        /\ ret.exc = ""
        /\ frame.i > Len(frame.ids)
        /\ (frame.seen = <<>> => ret.value = <<>>)

\* C6: get_top_manager_ids returns exactly min(top_n, number of entries in the
\* standings) manager ids in standings order, also when top_n exceeds one
\* page. Stated as the claim; the code does not satisfy it.
C6_TopManagerIdsPaged ==
    (call.fn = "get_top_manager_ids" /\ frame.stage = "done" /\ frame.failed = 0) =>
        /\ ret.exc = ""
        /\ ret.value = SubSeq(league, 1, Min(call.top_n, Len(league)))

\* C10: ownership_trend with an empty list of team ids issues no picks fetch
\* and returns the empty list, without a division by zero; the endpoint
\* rejects an empty team_ids string before any fetch.
C10_EmptyCohort ==
    /\ (call.fn = "ownership_trend" /\ call.team_ids = <<>>) =>
          /\ frame.fetches = 0
          /\ frame.stage = "done" => ret = Ok(<<>>)
    /\ (call.fn = "own_trend" /\ call.query = <<>>) =>
          /\ frame.fetches = 0
          /\ frame.stage = "done"
          /\ ret.exc = "ValueError"

\* C10 witness: ownership_trend([]) has returned
C10_Witness ==
    /\ call.fn = "ownership_trend"
    /\ call.team_ids = <<>>
    /\ frame.stage = "done"
    /\ ret = Ok(<<>>)

-----------------------------------------------------------------------------
(* Python float: IEEE 754 binary64, round to nearest, ties to even.        *)
(* The floats met here are prices and budgets, between 2^-12 and 2^29, so  *)
(* a float is kept as the exact binary number it is, written in base       *)
(* 2^LimbBits: limb 1 is its integer part and limb 1 + k has weight        *)
(* 2^(-k * LimbBits). A float of that range has no bit below 2^-64 and     *)
(* fits in 1 + FracLimbs limbs.                                            *)

\* significand bits of a Python float
Precision == 53

LimbBits == 13
FracLimbs == 5
Limbs == 1..(1 + FracLimbs)

\* 0.0
FloatZero == [i \in Limbs |-> 0]

\* the e with 2^e <= v < 2^(e + 1), for 1 <= v < 2^30
Log2Floor(v) == CHOOSE b \in 0..29 : 2^b <= v /\ v \div 2 < 2^b

\* a + b, exact
AddLimbs(a, b) ==
    LET s6 == a[6] + b[6]
        s5 == a[5] + b[5] + s6 \div 2^LimbBits
        s4 == a[4] + b[4] + s5 \div 2^LimbBits
        s3 == a[3] + b[3] + s4 \div 2^LimbBits
        s2 == a[2] + b[2] + s3 \div 2^LimbBits
        s1 == a[1] + b[1] + s2 \div 2^LimbBits
    IN  <<s1, s2 % 2^LimbBits, s3 % 2^LimbBits, s4 % 2^LimbBits,
          s5 % 2^LimbBits, s6 % 2^LimbBits>>

\* The float nearest to the exact value x + (something below the last limb
\* iff sticky), x > 0: keep Precision bits from the leading bit of x, round
\* on the bit that follows, to even when nothing but that bit is dropped.
RoundLimbs(x, sticky) ==
    LET top == CHOOSE i \in Limbs : x[i] # 0 /\ \A j \in 1..(i - 1) : x[j] = 0
        e == Log2Floor(x[top]) - LimbBits * (top - 1)
        \* the last bit kept has weight 2^last: bit `bit` of limb `at`
        last == e - (Precision - 1)
        at == 1 + (LimbBits - 1 - last) \div LimbBits
        bit == last + LimbBits * (at - 1)
        low == x[at] % 2^bit
        half == IF bit >= 1 THEN low \div 2^(bit - 1)
                ELSE IF at < 1 + FracLimbs THEN x[at + 1] \div 2^(LimbBits - 1)
                ELSE 0
        below == IF bit >= 1 THEN low % 2^(bit - 1)
                 ELSE IF at < 1 + FracLimbs THEN x[at + 1] % 2^(LimbBits - 1)
                 ELSE 0
        after == IF bit >= 1 THEN at + 1 ELSE at + 2
        more == sticky \/ below # 0 \/ \E i \in Limbs : i >= after /\ x[i] # 0
        odd == (x[at] \div 2^bit) % 2 = 1
        kept == [i \in Limbs |-> IF i < at THEN x[i]
                                 ELSE IF i = at THEN x[at] - low ELSE 0]
    IN  IF half = 1 /\ (more \/ odd)
        THEN AddLimbs(kept, [i \in Limbs |-> IF i = at THEN 2^bit ELSE 0])
        ELSE kept

\* int / int true division, num >= 0, den > 0: the correctly rounded
\* quotient, by long division
FloatOfRatio(num, den) ==
    LET s1 == (num % den) * 2^LimbBits
        s2 == (s1 % den) * 2^LimbBits
        s3 == (s2 % den) * 2^LimbBits
        s4 == (s3 % den) * 2^LimbBits
        s5 == (s4 % den) * 2^LimbBits
    IN  IF num = 0 THEN FloatZero
        ELSE RoundLimbs(<<num \div den, s1 \div den, s2 \div den, s3 \div den,
                          s4 \div den, s5 \div den>>, s5 % den # 0)

\* x + y
FloatAdd(x, y) ==
    IF x = FloatZero THEN y
    ELSE IF y = FloatZero THEN x
    ELSE RoundLimbs(AddLimbs(x, y), FALSE)

\* x <= y
FloatLE(x, y) ==
    \/ x = y
    \/ \E i \in Limbs : x[i] < y[i] /\ \A k \in 1..(i - 1) : x[k] = y[k]

-----------------------------------------------------------------------------
(* suggest_transfers: form, candidate pool, sell/buy pairs                 *)

\* get_recent_form(pid, lookback=5)
Lookback == 5
\* form below which a squad member is sold
FormThreshold == 3
\* replacements = top_value_picks(30), with its default min_mins = 900
CandidatePool == 30
DefaultMinMins == 900
\* moves[:3]
MaxMoves == 3

\* hist[-n:]
LastN(s, n) == IF Len(s) <= n THEN s ELSE SubSeq(s, Len(s) - n + 1, Len(s))

RECURSIVE SumOf(_)
SumOf(s) == IF s = <<>> THEN 0 ELSE s[1] + SumOf(Tail(s))

\* get_recent_form on the history list of the player's element-summary:
\* round(mean(pts), 2) in hundredths, 0 for an empty list. The mean of at
\* most five integers never falls on a half of a hundredth.
GetRecentForm(history) ==
    LET pts == LastN(history, Lookback)
    IN  IF pts = <<>> THEN 0 ELSE Round2(SumOf(pts), Len(pts))

\* _player_map_inv[name]: the dict comprehension over "first second" keeps,
\* for a name that occurs more than once, the id of its last element
PlayerMapInv(c, name) ==
    LET at == {i \in 1..Len(c.elements) : c.elements[i].name = name}
    IN  c.elements[CHOOSE i \in at : \A j \in at : j <= i].id

\* bad = [p for p in squad if get_recent_form(_player_map_inv[p["name"]]) < 3]
\* forms maps a player id to the history list served for it
BadOf(c, squad, forms) ==
    SelectIdx(squad,
        {i \in 1..Len(squad) :
            GetRecentForm(forms[PlayerMapInv(c, squad[i].name)]) < 100 * FormThreshold})

\* The float a price field stands for: price holds n and means n / 10
PriceOf(rec) == FloatOfRatio(rec.price, 10)

\* The loop over bad and replacements: the first replacement r with
\* r["price"] <= b["price"] + bank and r["position"] == b["position"] is
\* appended with b, nothing is appended when no replacement passes
MovesOf(bad, replacements, bank) ==
    LET limit == [i \in 1..Len(bad) |-> FloatAdd(PriceOf(bad[i]), bank)]
        price == [j \in 1..Len(replacements) |-> PriceOf(replacements[j])]
        passing == [i \in 1..Len(bad) |->
                      {j \in 1..Len(replacements) :
                          /\ FloatLE(price[j], limit[i])
                          /\ replacements[j].position = bad[i].position}]
        sold == SelectIdx([i \in 1..Len(bad) |-> i],
                          {i \in 1..Len(bad) : passing[i] # {}})
    IN  [k \in 1..Len(sold) |->
            [sell |-> bad[sold[k]],
             buy |-> replacements[CHOOSE j \in passing[sold[k]] :
                                     \A l \in passing[sold[k]] : j <= l]]]

\* suggest_transfers(team_id, gw, budget): entry is the document
\* get_manager_picks returned, budget is in tenths (the float budget / 10)
SuggestTransfers(c, entry, forms, budget) ==
    IF "entry_history" \notin DOMAIN entry THEN Raise("KeyError")
    ELSE LET bank == FloatAdd(FloatOfRatio(entry.entry_history.bank, 10),
                              FloatOfRatio(budget, 10))
             squad == ResolvePlayerPicks(c, entry.picks)
         IN  IF squad.exc # "" THEN squad
             ELSE LET bad == BadOf(c, squad.value, forms)
                      replacements == TopValuePicks(c, CandidatePool, DefaultMinMins)
                  IN  IF replacements.exc # "" THEN replacements
                      ELSE Ok(SliceTo(MovesOf(bad, replacements.value, bank),
                                      MaxMoves))

-----------------------------------------------------------------------------
(* SpecTransfers: suggest_transfers applied to bounded squads              *)

\* most players of a catalog, all of them in the squad
MaxSquad == 4

\* now_cost of a player, bank of the manager, budget of the request (tenths)
TransferCosts == {38, 62}
BankValues == {0, 4}
BudgetValues == {0, 20}

\* history lists of total_points: a trailing average of 2.0 after a high
\* score (3.17 over the whole list), of 3.0 after a blank (2.5 over the whole)
HistoryValues == {<<9, 2, 2, 2, 2, 2>>, <<0, 3, 3, 3, 3, 3>>}

\* Catalogs of n players: positions alternate, points grow along the
\* catalog, the first player may be short of minutes, and the last player
\* may bear the first player's name.
TransferCatalogs(maxn) ==
    UNION {
      { [elements |-> [i \in 1..n |->
             [Player(i, 1, 1 + (i % 2), i, cost[i],
                     IF i = 1 THEN mins ELSE DefaultMinMins)
              EXCEPT !.name = IF same /\ i = n THEN PlayerNames[1] ELSE @]],
         teams |-> BaseTeams,
         element_types |-> BaseTypes]
        : cost \in [1..n -> TransferCosts], mins \in {450, DefaultMinMins},
          same \in BOOLEAN }
      : n \in 1..maxn }

InitTransfers == FnInit(TransferCatalogs(MaxSquad), {<<>>})

\* entry/{id}/event/{gw}/picks/: the squad is the catalog's players, in
\* catalog order or in the opposite order
EntryDocs(c) ==
    LET n == Len(c.elements)
    IN  {[picks |-> [i \in 1..n |-> Pick(c.elements[IF fwd THEN i ELSE n + 1 - i].id)],
          entry_history |-> [event |-> 1, bank |-> bank]]
         : fwd \in BOOLEAN, bank \in BankValues}

\* suggest_transfers(team_id, gw, budget), GET /tools/suggest_transfers;
\* frame keeps the local list bad as it stands at the return
CallSuggestTransfers ==
    /\ call.fn = "none"
    /\ \E entry \in EntryDocs(catalog) \cup {ErrDoc}, budget \in BudgetValues,
          forms \in [{catalog.elements[i].id : i \in 1..Len(catalog.elements)}
                        -> HistoryValues] :
         /\ call' = [fn |-> "suggest_transfers", entry |-> entry,
                     forms |-> forms, budget |-> budget]
         /\ ret' = SuggestTransfers(catalog, entry, forms, budget)
         /\ frame' = [stage |-> "returned",
                      bad |-> IF "picks" \in DOMAIN entry
                              THEN BadOf(catalog,
                                         ResolvePlayerPicks(catalog, entry.picks).value,
                                         forms)
                              ELSE <<>>]
    /\ UNCHANGED <<gwvars, catalog, fixtures, league>>

NextTransfers == CallSuggestTransfers

SpecTransfers == InitTransfers /\ [][NextTransfers]_vars

-----------------------------------------------------------------------------
(* Claims about suggest_transfers                                          *)

\* squad member i of the request: its pick, its catalog entry
SquadIds == [i \in 1..Len(call.entry.picks) |-> call.entry.picks[i].element]
SquadPlayer(i) == PlayerOf(catalog, SquadIds[i])

\* the trailing-5-gameweek average of the player's own history is below 3.0
OwnFormBelow(pid) ==
    LET pts == LastN(call.forms[pid], Lookback)
    IN  SumOf(pts) < FormThreshold * Len(pts)

\* no two players of the catalog bear one name
UniqueNames ==
    \A i, j \in 1..Len(catalog.elements) :
        catalog.elements[i].name = catalog.elements[j].name => i = j

\* the top-30 value picks, in value-rank order
ValuePool == TopValuePicks(catalog, CandidatePool, DefaultMinMins).value

\* candidates of squad member i: same position, and price within the
\* member's price + bank / 10 + budget (all three in tenths)
CandidatesOf(i) ==
    {j \in 1..Len(ValuePool) :
        /\ PosCode(catalog, PlayerOf(catalog, ValuePool[j].id).element_type)
              = PosCode(catalog, SquadPlayer(i).element_type)
        /\ PlayerOf(catalog, ValuePool[j].id).now_cost
              <= SquadPlayer(i).now_cost + call.entry.entry_history.bank + call.budget}

\* the underperformers that have a candidate, in squad order
Replaceable ==
    SelectIdx([i \in 1..Len(SquadIds) |-> i],
              {i \in 1..Len(SquadIds) :
                  OwnFormBelow(SquadIds[i]) /\ CandidatesOf(i) # {}})

\* C11: suggest_transfers returns, without error, at most 3 sell/buy pairs:
\* one for each underperforming squad member that has a candidate, in squad
\* order, the first three of them; the buy of a pair is the first entry of
\* the top-30 value picks with the sell's position and a price <= the sell's
\* price + (bank / 10 + budget). Checked where names are unique, so that
\* the underperformers are the ones the code finds.
\* Stated as the claim; the code does not satisfy it.
C11_TransferPairs ==
    (call.fn = "suggest_transfers" /\ "picks" \in DOMAIN call.entry /\ UniqueNames) =>
        /\ ret.exc = ""
        /\ Len(ret.value) = Min(MaxMoves, Len(Replaceable))
        /\ \A k \in 1..Len(ret.value) :
             /\ k <= Len(Replaceable)
             /\ ret.value[k].sell.id = SquadIds[Replaceable[k]]
             /\ ret.value[k].buy.id =
                  ValuePool[CHOOSE j \in CandidatesOf(Replaceable[k]) :
                               \A l \in CandidatesOf(Replaceable[k]) : j <= l].id

\* C12: a squad member is on the sell list iff the trailing-5-gameweek
\* average of its own player id is below 3.0, for every catalog, one with
\* two players of the same name included.
\* Stated as the claim; the code does not satisfy it.
C12_SellListByOwnForm ==
    (call.fn = "suggest_transfers" /\ "picks" \in DOMAIN call.entry) =>
        \A i \in 1..Len(SquadIds) :
            (\E k \in 1..Len(frame.bad) : frame.bad[k].id = SquadIds[i])
                <=> OwnFormBelow(SquadIds[i])

=============================================================================
